---------------------------- MODULE Spec2Model ----------------------------
(***************************************************************************)
(* Hybrid classifier composition layer of classifiers/hybrid/models.py:    *)
(* construction of WeightedHybridClassifier, LearnedWeightHybridClassifier *)
(* and LatentSpacePooledHybridClassifier (argument validation and the      *)
(* layer-appending loops) and their forward passes (tensor shapes and the  *)
(* arithmetic of the mixing).  Numbers are exact rationals <<n, d>>;       *)
(* tensors are a shape and row-major data; batch normalisation is taken in *)
(* evaluation mode.                                                        *)
(***************************************************************************)
EXTENDS Integers, Sequences, FiniteSets, TLC

VARIABLES kind, args, pc, i, weight_network, stack, self, exc, inp, out

vars == <<kind, args, pc, i, weight_network, stack, self, exc, inp, out>>

(***************************************************************************)
(* Bounds of the model.                                                    *)
(***************************************************************************)
MaxHidden == 2
MaxLatent == 2
MaxBatch == 2
WeightDen == 2

\* Hidden widths the lists are drawn from (two distinct values, so that
\* Linear(h, h) and Linear(h, h') differ).
Widths == {2, 3}

\* Python's None (no number is the empty tuple).
None == <<>>

(***************************************************************************)
(* Exact rational arithmetic.                                              *)
(***************************************************************************)
Abs(n) == IF n < 0 THEN -n ELSE n

RECURSIVE GCD(_, _)
GCD(a, b) == IF b = 0 THEN a ELSE GCD(b, a % b)

Rat(n, d) ==
    LET s == IF d < 0 THEN -1 ELSE 1
        g == GCD(Abs(n), Abs(d))
    IN  <<(s * n) \div g, (s * d) \div g>>

R(n) == <<n, 1>>
RAdd(a, b) == Rat(a[1] * b[2] + b[1] * a[2], a[2] * b[2])
RSub(a, b) == Rat(a[1] * b[2] - b[1] * a[2], a[2] * b[2])
RMul(a, b) == Rat(a[1] * b[1], a[2] * b[2])
RDiv(a, b) == Rat(a[1] * b[2], a[2] * b[1])
RLt(a, b) == a[1] * b[2] < b[1] * a[2]
RGt(a, b) == RLt(b, a)
RLe(a, b) == ~RLt(b, a)

(***************************************************************************)
(* Tensors: [shape |-> <<d1, ..., dn>>, data |-> row-major sequence].      *)
(***************************************************************************)
Tensor(shape, data) == [shape |-> shape, data |-> data]

RECURSIVE Prod(_, _)
Prod(s, from) == IF from > Len(s) THEN 1 ELSE s[from] * Prod(s, from + 1)

Size(shape) == Prod(shape, 1)
Stride(shape, j) == Prod(shape, j + 1)

Unravel(k, shape) ==
    [j \in 1..Len(shape) |-> (((k - 1) \div Stride(shape, j)) % shape[j]) + 1]

RECURSIVE RavelFrom(_, _, _)
RavelFrom(idx, shape, j) ==
    IF j > Len(shape) THEN 0
    ELSE (idx[j] - 1) * Stride(shape, j) + RavelFrom(idx, shape, j + 1)

Ravel(idx, shape) == 1 + RavelFrom(idx, shape, 1)

Max(a, b) == IF a > b THEN a ELSE b

\* shape s padded on the left with 1s to rank n
Pad(s, n) == [j \in 1..n |-> IF j <= n - Len(s) THEN 1 ELSE s[j - (n - Len(s))]]

\* torch broadcasting of two shapes
BroadcastShape(s1, s2) ==
    LET n == Max(Len(s1), Len(s2))
        a == Pad(s1, n)
        b == Pad(s2, n)
    IN  [j \in 1..n |-> IF a[j] = 1 THEN b[j] ELSE a[j]]

\* position in a tensor of shape s of element k of the broadcast result rs
BroadcastIndex(k, rs, s) ==
    LET p == Pad(s, Len(rs))
        idx == Unravel(k, rs)
    IN  Ravel([j \in 1..Len(rs) |-> IF p[j] = 1 THEN 1 ELSE idx[j]], p)

Scalar(r) == Tensor(<<>>, <<r>>)

\* torch.mul(x, y)
mul(x, y) ==
    LET rs == BroadcastShape(x.shape, y.shape)
    IN  Tensor(rs, [k \in 1..Size(rs) |->
                      RMul(x.data[BroadcastIndex(k, rs, x.shape)],
                           y.data[BroadcastIndex(k, rs, y.shape)])])

\* torch.add(x, y), x + y
add(x, y) ==
    LET rs == BroadcastShape(x.shape, y.shape)
    IN  Tensor(rs, [k \in 1..Size(rs) |->
                      RAdd(x.data[BroadcastIndex(k, rs, x.shape)],
                           y.data[BroadcastIndex(k, rs, y.shape)])])

\* torch.stack((g, v), dim=1) of two [B, L] tensors: [B, 2, L]
stack_dim1(g, v) ==
    LET rs == <<g.shape[1], 2, g.shape[2]>>
    IN  Tensor(rs, [k \in 1..Size(rs) |->
                      LET idx == Unravel(k, rs)
                          at  == Ravel(<<idx[1], idx[3]>>, g.shape)
                      IN  IF idx[2] = 1 THEN g.data[at] ELSE v.data[at]])

\* t[..., c] (c counted from 0): drops the last axis
select_last(t, c) ==
    LET n  == Len(t.shape)
        rs == SubSeq(t.shape, 1, n - 1)
    IN  Tensor(rs, [k \in 1..Size(rs) |-> t.data[(k - 1) * t.shape[n] + c + 1]])

\* t.unsqueeze(1)
unsqueeze1(t) == Tensor(<<t.shape[1], 1>> \o SubSeq(t.shape, 2, Len(t.shape)), t.data)

\* t.reshape(-1, 2, 1)
reshape_21(t) == Tensor(<<Size(t.shape) \div 2, 2, 1>>, t.data)

\* t.squeeze(): every axis of size 1 is removed
squeeze(t) == Tensor(SelectSeq(t.shape, LAMBDA d : d # 1), t.data)

\* nn.AvgPool2d((2, 1)) on a 3-d input [C, H, W]: [C, H div 2, W]
avg_pool_2d(t) ==
    LET rs == <<t.shape[1], t.shape[2] \div 2, t.shape[3]>>
    IN  Tensor(rs, [k \in 1..Size(rs) |->
                      LET idx == Unravel(k, rs)
                      IN  RDiv(RAdd(t.data[Ravel(<<idx[1], 2 * idx[2] - 1, idx[3]>>, t.shape)],
                                    t.data[Ravel(<<idx[1], 2 * idx[2], idx[3]>>, t.shape)]),
                               R(2))])

\* nn.Softmax(dim=1) on a 2-d tensor, given the exponentials of the logits:
\* every entry over the sum of its row
RECURSIVE RowSum(_, _, _)
RowSum(e, row, c) ==
    IF c > e.shape[2] THEN R(0)
    ELSE RAdd(e.data[Ravel(<<row, c>>, e.shape)], RowSum(e, row, c + 1))

SoftmaxUnnormalised(e) == e

Softmax(e) ==
    Tensor(e.shape, [k \in 1..Size(e.shape) |->
                       RDiv(e.data[k], RowSum(e, Unravel(k, e.shape)[1], 1))])

\* x = sum_pool_2d(x): average-pool, times 2, squeeze
SumPoolNoRescale(x) == squeeze(avg_pool_2d(x))

sum_pool_2d(x) == squeeze(mul(avg_pool_2d(x), Scalar(R(2))))

(***************************************************************************)
(* Layers of an nn.Sequential container.  in/out are the widths a layer    *)
(* is built with (0 where it has none).                                    *)
(***************************************************************************)
Layer(op, in, outw) == [op |-> op, in |-> in, out |-> outw]
Linear(in, outw) == Layer("Linear", in, outw)
BatchNorm1d(n) == Layer("BatchNorm1d", n, n)
ReLU == Layer("ReLU", 0, 0)
SoftmaxDim1 == Layer("Softmax", 0, 0)
\* ParticleMapping(4, 8, latent_space_dim, ...): [B, 2, 4] -> [B, latent_space_dim]
ParticleMapping(latent) == Layer("ParticleMapping", 4, latent)

\* Python list indexing, from 0; h[-1]
At(h, k) == h[k + 1]
Last(h) == h[Len(h)]

\* The width expression the loop bodies use twice: once for the output of the
\* linear layer and once for the normalisation after it.
LoopLinearOut(h, k) == IF k = Len(h) - 1 THEN At(h, k) ELSE At(h, k + 1)

LoopNormWidthSameIndex(h, k) == At(h, k)

LoopNormWidth(h, k) == IF k = Len(h) - 1 THEN At(h, k) ELSE At(h, k + 1)

\* one iteration of a layer-building loop
LoopBody(seq, h, k) ==
    seq \o <<Linear(At(h, k), LoopLinearOut(h, k)),
             BatchNorm1d(LoopNormWidth(h, k)),
             ReLU>>

(***************************************************************************)
(* Shape a container produces from an input shape, layer by layer, or the  *)
(* exception the first failing layer raises.                               *)
(***************************************************************************)
ShapeOk(shape) == [err |-> "none", shape |-> shape]
ShapeErr(e) == [err |-> e, shape |-> <<>>]

LayerShape(l, shape) ==
    LET n == Len(shape)
    IN  CASE l.op = "Linear" ->
               IF n >= 1 /\ shape[n] = l.in
               THEN ShapeOk([shape EXCEPT ![n] = l.out])
               ELSE ShapeErr("RuntimeError")
          [] l.op = "BatchNorm1d" ->
               IF n \notin {2, 3} THEN ShapeErr("ValueError")
               ELSE IF shape[2] # l.in THEN ShapeErr("RuntimeError")
               ELSE ShapeOk(shape)
          [] l.op = "ReLU" -> ShapeOk(shape)
          [] l.op = "Softmax" ->
               IF n >= 2 THEN ShapeOk(shape) ELSE ShapeErr("IndexError")
          [] l.op = "ParticleMapping" ->
               IF n = 3 /\ shape[3] = l.in
               THEN ShapeOk(<<shape[1], l.out>>)
               ELSE ShapeErr("RuntimeError")

RECURSIVE RunShape(_, _, _)
RunShape(layers, k, shape) ==
    IF k > Len(layers) THEN ShapeOk(shape)
    ELSE LET r == LayerShape(layers[k], shape)
         IN  IF r.err # "none" THEN r ELSE RunShape(layers, k + 1, r.shape)

(***************************************************************************)
(* Constructor arguments.                                                  *)
(***************************************************************************)
WeightValues == {Rat(k, WeightDen) : k \in -1..(WeightDen + 1)}
HiddenLists == UNION {[1..n -> Widths] : n \in 0..MaxHidden}
LatentDims == 1..MaxLatent

NoModule ==
    [invariant_network_weight |-> None, general_network_weight |-> None,
     general_classifier_preference |-> None,
     weight_network |-> <<>>, stack |-> <<>>]

NoInput == [B |-> 0, general_result |-> Tensor(<<>>, <<>>),
            invariant_result |-> Tensor(<<>>, <<>>),
            gate_exp |-> Tensor(<<>>, <<>>)]

NoOutput == [network_weights |-> Tensor(<<>>, <<>>),
             pool_weights |-> Tensor(<<>>, <<>>),
             pooled |-> Tensor(<<>>, <<>>),
             result |-> Tensor(<<>>, <<>>),
             result_shape |-> <<>>]

WeightedArgs ==
    {[invariant_network_weight |-> w, latent_space_dim |-> l,
      weight_network_hidden_layer_dimensions |-> <<>>,
      classifier_hidden_layer_dimensions |-> <<>>,
      general_classifier_preference |-> None] :
        w \in WeightValues, l \in LatentDims}

LearnedArgs ==
    {[invariant_network_weight |-> None, latent_space_dim |-> l,
      weight_network_hidden_layer_dimensions |-> h,
      classifier_hidden_layer_dimensions |-> <<>>,
      general_classifier_preference |-> None] :
        l \in LatentDims, h \in HiddenLists}

PooledArgs ==
    {[invariant_network_weight |-> None, latent_space_dim |-> l,
      weight_network_hidden_layer_dimensions |-> h,
      classifier_hidden_layer_dimensions |-> c,
      general_classifier_preference |-> p] :
        l \in LatentDims, h \in HiddenLists, c \in HiddenLists,
        p \in WeightValues \cup {None}}

Init ==
    /\ kind \in {"Weighted", "Learned", "Pooled"}
    /\ args \in (CASE kind = "Weighted" -> WeightedArgs
                   [] kind = "Learned" -> LearnedArgs
                   [] kind = "Pooled" -> PooledArgs)
    /\ pc = "new"
    /\ i = 0
    /\ weight_network = <<>>
    /\ stack = <<>>
    /\ self = NoModule
    /\ exc = "none"
    /\ inp = NoInput
    /\ out = NoOutput

Raise(e) ==
    /\ exc' = e
    /\ pc' = "raised"
    /\ UNCHANGED <<kind, args, i, weight_network, stack, self, inp, out>>

(***************************************************************************)
(* WeightedHybridClassifier.__init__                                       *)
(***************************************************************************)
WeightOutOfRangeExclusive(w) == RGt(w, R(1)) \/ RLt(w, R(0)) \/ w = R(1) \/ w = R(0)

WeightOutOfRange(w) == RGt(w, R(1)) \/ RLt(w, R(0))

WeightedInit ==
    /\ kind = "Weighted" /\ pc = "new"
    /\ IF WeightOutOfRange(args.invariant_network_weight)
       THEN Raise("ValueError")
       ELSE /\ self' = [self EXCEPT
                          !.invariant_network_weight = args.invariant_network_weight,
                          !.general_network_weight =
                              RSub(R(1), args.invariant_network_weight)]
            /\ pc' = "constructed"
            /\ UNCHANGED <<kind, args, i, weight_network, stack, exc, inp, out>>

(***************************************************************************)
(* LearnedWeightHybridClassifier.__init__                                  *)
(***************************************************************************)
LearnedInitBegin ==
    /\ kind = "Learned" /\ pc = "new"
    /\ LET h == args.weight_network_hidden_layer_dimensions
       IN  IF Len(h) = 0
           THEN Raise("ValueError")
           ELSE /\ stack' = <<ParticleMapping(args.latent_space_dim),
                              Linear(args.latent_space_dim, At(h, 0)),
                              BatchNorm1d(At(h, 0)),
                              ReLU>>
                /\ i' = 0
                /\ pc' = "gate_loop"
                /\ UNCHANGED <<kind, args, weight_network, self, exc, inp, out>>

LearnedLoop ==
    /\ kind = "Learned" /\ pc = "gate_loop"
    /\ i < Len(args.weight_network_hidden_layer_dimensions)
    /\ stack' = LoopBody(stack, args.weight_network_hidden_layer_dimensions, i)
    /\ i' = i + 1
    /\ UNCHANGED <<kind, args, pc, weight_network, self, exc, inp, out>>

LearnedInitEnd ==
    /\ kind = "Learned" /\ pc = "gate_loop"
    /\ i = Len(args.weight_network_hidden_layer_dimensions)
    /\ LET done == stack \o <<Linear(Last(args.weight_network_hidden_layer_dimensions), 2),
                              SoftmaxDim1>>
       IN  /\ stack' = done
           /\ self' = [self EXCEPT !.stack = done]
    /\ pc' = "constructed"
    /\ UNCHANGED <<kind, args, i, weight_network, exc, inp, out>>

(***************************************************************************)
(* LatentSpacePooledHybridClassifier.__init__                              *)
(***************************************************************************)
PooledInitBegin ==
    /\ kind = "Pooled" /\ pc = "new"
    /\ LET h == args.weight_network_hidden_layer_dimensions
       IN  IF Len(h) = 0
           THEN Raise("ValueError")
           ELSE /\ weight_network' = <<Linear(1, At(h, 0)),
                                       BatchNorm1d(At(h, 0)),
                                       ReLU>>
                /\ i' = 0
                /\ pc' = "weight_network_loop"
                /\ UNCHANGED <<kind, args, stack, self, exc, inp, out>>

PooledWeightLoop ==
    /\ kind = "Pooled" /\ pc = "weight_network_loop"
    /\ i < Len(args.weight_network_hidden_layer_dimensions)
    /\ weight_network' =
           LoopBody(weight_network, args.weight_network_hidden_layer_dimensions, i)
    /\ i' = i + 1
    /\ UNCHANGED <<kind, args, pc, stack, self, exc, inp, out>>

\* the end of the weight_network and the first three layers of the head;
\* classifier_hidden_layer_dimensions[0] of an empty list is an IndexError
PooledWeightEnd ==
    /\ kind = "Pooled" /\ pc = "weight_network_loop"
    /\ i = Len(args.weight_network_hidden_layer_dimensions)
    /\ LET c == args.classifier_hidden_layer_dimensions
           w == weight_network
                  \o <<Linear(Last(args.weight_network_hidden_layer_dimensions), 2),
                       SoftmaxDim1>>
       IN  IF Len(c) = 0
           THEN /\ weight_network' = w
                /\ exc' = "IndexError"
                /\ pc' = "raised"
                /\ UNCHANGED <<kind, args, i, stack, self, inp, out>>
           ELSE /\ weight_network' = w
                /\ stack' = <<Linear(args.latent_space_dim, At(c, 0)),
                              BatchNorm1d(At(c, 0)),
                              ReLU>>
                /\ i' = 0
                /\ pc' = "stack_loop"
                /\ UNCHANGED <<kind, args, self, exc, inp, out>>

PooledStackLoop ==
    /\ kind = "Pooled" /\ pc = "stack_loop"
    /\ i < Len(args.classifier_hidden_layer_dimensions)
    /\ stack' = LoopBody(stack, args.classifier_hidden_layer_dimensions, i)
    /\ i' = i + 1
    /\ UNCHANGED <<kind, args, pc, weight_network, self, exc, inp, out>>

PooledInitEnd ==
    /\ kind = "Pooled" /\ pc = "stack_loop"
    /\ i = Len(args.classifier_hidden_layer_dimensions)
    /\ LET done == stack \o <<Linear(Last(args.classifier_hidden_layer_dimensions), 1)>>
       IN  /\ stack' = done
           /\ self' = [self EXCEPT
                         !.weight_network = weight_network,
                         !.general_classifier_preference =
                             args.general_classifier_preference,
                         !.stack = done]
    /\ pc' = "constructed"
    /\ UNCHANGED <<kind, args, i, weight_network, exc, inp, out>>

(***************************************************************************)
(* Inputs of a forward pass: the outputs of the subnetworks on a batch of  *)
(* B events and the exponentials of the gate's logits.                     *)
(***************************************************************************)
InputSeeds == {-1, 2}
GateSeeds == {1, 3}

\* general_p_map(x): [B, width]
GeneralOutput(B, width, s) ==
    Tensor(<<B, width>>, [k \in 1..(B * width) |-> R(s * k + 1)])

\* invariant_p_map(x): [B, width]
InvariantOutput(B, width, s) ==
    Tensor(<<B, width>>, [k \in 1..(B * width) |-> R(3 - s * k)])

\* exp of the logits the last linear layer of a gate produces, of its shape
GateExp(shape, e) ==
    Tensor(shape, [k \in 1..Size(shape) |->
                     LET idx == Unravel(k, shape)
                     IN  IF idx[Len(shape)] = 1 THEN R(e) ELSE R(idx[1])])

Forwarded(o) ==
    /\ out' = o
    /\ exc' = "none"
    /\ pc' = "forwarded"

ForwardRaised(e) ==
    /\ out' = NoOutput
    /\ exc' = e
    /\ pc' = "forward_raised"

(***************************************************************************)
(* WeightedHybridClassifier.forward                                        *)
(***************************************************************************)
WeightedForward ==
    /\ kind = "Weighted" /\ pc = "constructed"
    /\ \E B \in 1..MaxBatch, s \in InputSeeds :
       \E general_result \in {GeneralOutput(B, 1, s)} :
       \E invariant_result \in {InvariantOutput(B, 1, s)} :
       \E combined_result \in
              {add(mul(general_result, Scalar(self.general_network_weight)),
                   mul(invariant_result, Scalar(self.invariant_network_weight)))} :
         /\ inp' = [B |-> B, general_result |-> general_result,
                    invariant_result |-> invariant_result,
                    gate_exp |-> Tensor(<<>>, <<>>)]
         /\ Forwarded([NoOutput EXCEPT !.result = combined_result,
                                       !.result_shape = combined_result.shape])
    /\ UNCHANGED <<kind, args, i, weight_network, stack, self>>

(***************************************************************************)
(* LearnedWeightHybridClassifier.forward                                   *)
(***************************************************************************)
GateColumnNoUnsqueeze(network_weights, c) == select_last(network_weights, c)

\* network_weights[..., c].unsqueeze(1)
GateColumn(network_weights, c) == unsqueeze1(select_last(network_weights, c))

LearnedForward ==
    /\ kind = "Learned" /\ pc = "constructed"
    /\ \E B \in 1..MaxBatch, s \in InputSeeds, e \in GateSeeds :
       \E general_result \in {GeneralOutput(B, 1, s)} :
       \E invariant_result \in {InvariantOutput(B, 1, s)} :
       \E gate \in {RunShape(self.stack, 1, <<B, 2, 4>>)} :
         IF gate.err # "none"
         THEN /\ inp' = [B |-> B, general_result |-> general_result,
                         invariant_result |-> invariant_result,
                         gate_exp |-> Tensor(<<>>, <<>>)]
              /\ ForwardRaised(gate.err)
         ELSE \E gate_exp \in {GateExp(gate.shape, e)} :
              \E network_weights \in {Softmax(gate_exp)} :
              \E general_weight \in {GateColumn(network_weights, 0)} :
              \E invariant_weight \in {GateColumn(network_weights, 1)} :
              \E combined_result \in
                     {add(mul(general_result, general_weight),
                          mul(invariant_result, invariant_weight))} :
                /\ inp' = [B |-> B, general_result |-> general_result,
                           invariant_result |-> invariant_result,
                           gate_exp |-> gate_exp]
                /\ Forwarded([NoOutput EXCEPT
                                !.network_weights = network_weights,
                                !.result = combined_result,
                                !.result_shape = combined_result.shape])
    /\ UNCHANGED <<kind, args, i, weight_network, stack, self>>

(***************************************************************************)
(* LatentSpacePooledHybridClassifier.forward                               *)
(***************************************************************************)
\* torch.Tensor([[1 - p], [1 - p]])
SkewScale(p) == Tensor(<<2, 1>>, <<RSub(R(1), p), RSub(R(1), p)>>)

SkewOffsetSwapped(p) == Tensor(<<2, 1>>, <<R(0), p>>)

\* torch.Tensor([[p], [0.0]])
SkewOffset(p) == Tensor(<<2, 1>>, <<p, R(0)>>)

Skew(pool_weights, p) ==
    IF p # None
    THEN add(mul(pool_weights, SkewScale(p)), SkewOffset(p))
    ELSE pool_weights

PooledForward ==
    /\ kind = "Pooled" /\ pc = "constructed"
    /\ \E B \in 1..MaxBatch, s \in InputSeeds, e \in GateSeeds :
       \E general_result \in {GeneralOutput(B, args.latent_space_dim, s)} :
       \E invariant_result \in {InvariantOutput(B, args.latent_space_dim, s)} :
       \E stacked \in {stack_dim1(general_result, invariant_result)} :
       \E gate \in {RunShape(self.weight_network, 1, <<B, 1>>)} :
         IF gate.err # "none"
         THEN /\ inp' = [B |-> B, general_result |-> general_result,
                         invariant_result |-> invariant_result,
                         gate_exp |-> Tensor(<<>>, <<>>)]
              /\ ForwardRaised(gate.err)
         ELSE \E gate_exp \in {GateExp(gate.shape, e)} :
              \E network_weights \in {Softmax(gate_exp)} :
              \E reshaped \in {reshape_21(network_weights)} :
              \E pool_weights \in {Skew(reshaped, self.general_classifier_preference)} :
              \E weighted \in {mul(stacked, pool_weights)} :
              \E pooled \in {sum_pool_2d(weighted)} :
              \E head \in {RunShape(self.stack, 1, pooled.shape)} :
                /\ inp' = [B |-> B, general_result |-> general_result,
                           invariant_result |-> invariant_result,
                           gate_exp |-> gate_exp]
                /\ out' = [NoOutput EXCEPT
                             !.network_weights = network_weights,
                             !.pool_weights = pool_weights,
                             !.pooled = pooled,
                             !.result_shape = head.shape]
                /\ exc' = head.err
                /\ pc' = IF head.err = "none" THEN "forwarded" ELSE "forward_raised"
    /\ UNCHANGED <<kind, args, i, weight_network, stack, self>>

Next ==
    \/ WeightedInit
    \/ LearnedInitBegin
    \/ LearnedLoop
    \/ LearnedInitEnd
    \/ PooledInitBegin
    \/ PooledWeightLoop
    \/ PooledWeightEnd
    \/ PooledStackLoop
    \/ PooledInitEnd
    \/ WeightedForward
    \/ LearnedForward
    \/ PooledForward

Spec == Init /\ [][Next]_vars

(***************************************************************************)
(* Properties.                                                             *)
(***************************************************************************)
InUnitInterval(w) == RLe(R(0), w) /\ RLe(w, R(1))
Built == pc \in {"constructed", "forwarded", "forward_raised"}
Events == 1..inp.B
\* entry [b, c] (c from 0) of a [B, 2] or [B, 2, 1] tensor
Entry2(t, b, c) == t.data[2 * (b - 1) + c + 1]
\* entry [b, l] of a tensor with rows of args.latent_space_dim entries
EntryL(t, b, l) == t.data[(b - 1) * args.latent_space_dim + l]
\* the pooled forward pass got as far as the pooling; it returned
PooledRan == kind = "Pooled" /\ out # NoOutput
PooledReturned == kind = "Pooled" /\ pc = "forwarded"

\* C1: WeightedHybridClassifier with 0 <= w <= 1 (0 and 1 included) is
\* constructed without error, general_network_weight is 1 - w, the two weights
\* sum to 1, and forward returns (1 - w) * g + w * i for every event.
C1_WeightedConvexCombination ==
    kind = "Weighted" =>
      LET w == args.invariant_network_weight
      IN  /\ (pc # "new" /\ InUnitInterval(w)) => (pc # "raised" /\ exc = "none")
          /\ Built =>
               /\ self.invariant_network_weight = w
               /\ self.general_network_weight = RSub(R(1), w)
               /\ RAdd(self.general_network_weight, self.invariant_network_weight) = R(1)
          /\ pc = "forwarded" =>
               /\ Len(out.result.data) = inp.B
               /\ \A b \in Events :
                    out.result.data[b] =
                        RAdd(RMul(RSub(R(1), w), inp.general_result.data[b]),
                             RMul(w, inp.invariant_result.data[b]))

C1_Witness ==
    /\ kind = "Weighted" /\ pc = "forwarded"
    /\ args.invariant_network_weight = R(1)
    /\ inp.B >= 2
    /\ out.result.data[2] # R(0)

\* C2: no constructed module holds a weight parameter outside [0, 1]: neither
\* invariant_network_weight of WeightedHybridClassifier nor a set
\* general_classifier_preference of LatentSpacePooledHybridClassifier.
C2_WeightParametersValidated ==
    Built =>
      /\ kind = "Weighted" => InUnitInterval(self.invariant_network_weight)
      /\ (kind = "Pooled" /\ self.general_classifier_preference # None) =>
             InUnitInterval(self.general_classifier_preference)

\* C3: an empty hidden-dimension list for a dynamically built stack (the gate,
\* the weight_network, the classifier head) ends construction in ValueError, and
\* no finished stack has zero layers.
C3_EmptyHiddenListRaisesValueError ==
    /\ (kind = "Learned" /\ pc # "new"
          /\ args.weight_network_hidden_layer_dimensions = <<>>) =>
           (pc = "raised" /\ exc = "ValueError")
    /\ (kind = "Pooled" /\ pc # "new"
          /\ args.weight_network_hidden_layer_dimensions = <<>>) =>
           (pc = "raised" /\ exc = "ValueError")
    /\ (kind = "Pooled" /\ pc \notin {"new", "weight_network_loop"}
          /\ args.classifier_hidden_layer_dimensions = <<>>) =>
           (pc = "raised" /\ exc = "ValueError")
    /\ (Built /\ kind # "Weighted") => self.stack # <<>>
    /\ (Built /\ kind = "Pooled") => self.weight_network # <<>>

LinearsOf(seq) == SelectSeq(seq, LAMBDA l : l.op = "Linear")

\* Linear(input_dim, h_0), Linear(h_i, h_{i+1}) for i = 0 .. n-2, Linear(h_{n-1}, output_dim)
ChainOfLinears(in, h, outw) ==
    [k \in 1..(Len(h) + 1) |->
        IF k = 1 THEN Linear(in, h[1])
        ELSE IF k = Len(h) + 1 THEN Linear(h[Len(h)], outw)
        ELSE Linear(h[k - 1], h[k])]

\* C4: every finished stack built from H = [h_0 .. h_{n-1}] holds exactly the
\* n + 1 linear layers Linear(input_dim, h_0), Linear(h_i, h_{i+1}),
\* Linear(h_{n-1}, output_dim), so none maps h_{n-1} to h_{n-1}.
C4_StackHasNPlusOneLinears ==
    Built =>
      /\ kind = "Learned" =>
           LinearsOf(self.stack) =
               ChainOfLinears(args.latent_space_dim,
                              args.weight_network_hidden_layer_dimensions, 2)
      /\ kind = "Pooled" =>
           /\ LinearsOf(self.weight_network) =
                  ChainOfLinears(1, args.weight_network_hidden_layer_dimensions, 2)
           /\ LinearsOf(self.stack) =
                  ChainOfLinears(args.latent_space_dim,
                                 args.classifier_hidden_layer_dimensions, 1)

\* C5: with general_classifier_preference = p set, the pool weights are
\* (1 - p) * w_general + p at source index 0 and (1 - p) * w_invariant at source
\* index 1; unset, they are the weight_network output, and p = 0 gives the same.
C5_SkewFormula ==
    PooledRan =>
      LET p == self.general_classifier_preference
      IN  /\ out.pool_weights.shape = <<inp.B, 2, 1>>
          /\ \A b \in Events :
               /\ Entry2(out.pool_weights, b, 0) =
                      IF p = None THEN Entry2(out.network_weights, b, 0)
                      ELSE RAdd(RMul(RSub(R(1), p), Entry2(out.network_weights, b, 0)), p)
               /\ Entry2(out.pool_weights, b, 1) =
                      IF p = None THEN Entry2(out.network_weights, b, 1)
                      ELSE RMul(RSub(R(1), p), Entry2(out.network_weights, b, 1))
          /\ p = R(0) => out.pool_weights.data = out.network_weights.data

C5_Witness ==
    /\ PooledReturned
    /\ self.general_classifier_preference = Rat(1, 2)
    /\ inp.B >= 2
    /\ Entry2(out.pool_weights, 2, 0) # Entry2(out.network_weights, 2, 0)
    /\ Entry2(out.pool_weights, 2, 0) # Entry2(out.pool_weights, 2, 1)

PreSkewSum(b) == RAdd(Entry2(out.network_weights, b, 0), Entry2(out.network_weights, b, 1))
PostSkewSum(b) == RAdd(Entry2(out.pool_weights, b, 0), Entry2(out.pool_weights, b, 1))

\* C6 as stated: the pool weights sum to 1 before the skew; after the skew with
\* preference p they sum to p + (1 - p) * (pre-skew sum), and to 1 only when
\* p = 0.  Stated for forward passes that return, with p in [0, 1].
C6_SkewedSumIsOneOnlyForZeroPreference ==
    (PooledReturned /\ self.general_classifier_preference # None
       /\ InUnitInterval(self.general_classifier_preference)) =>
      LET p == self.general_classifier_preference
      IN  \A b \in Events :
            /\ PreSkewSum(b) = R(1)
            /\ PostSkewSum(b) = RAdd(p, RMul(RSub(R(1), p), PreSkewSum(b)))
            /\ PostSkewSum(b) = R(1) => p = R(0)

\* C6 amended: the pool weights sum to 1 before the skew; after the skew with
\* preference p they sum to p + (1 - p) * (pre-skew sum), which is 1 for every p.
C6_SkewKeepsSumOne ==
    PooledRan =>
      LET p == self.general_classifier_preference
      IN  \A b \in Events :
            /\ PreSkewSum(b) = R(1)
            /\ p # None =>
                 /\ PostSkewSum(b) = RAdd(p, RMul(RSub(R(1), p), PreSkewSum(b)))
                 /\ PostSkewSum(b) = R(1)

C6_Witness ==
    /\ PooledReturned
    /\ self.general_classifier_preference = Rat(1, 2)
    /\ PostSkewSum(1) = R(1)

\* C7: every component of the pooled result is a * u + b * v for the pool
\* weights [a, b] and the latent vectors [u, v] of its event (not the average).
C7_SumPoolIsWeightedSum ==
    PooledRan =>
      \A b \in Events : \A l \in 1..args.latent_space_dim :
        EntryL(out.pooled, b, l) =
            RAdd(RMul(Entry2(out.pool_weights, b, 0), EntryL(inp.general_result, b, l)),
                 RMul(Entry2(out.pool_weights, b, 1), EntryL(inp.invariant_result, b, l)))

C7_Witness ==
    /\ PooledReturned
    /\ inp.B >= 2 /\ args.latent_space_dim >= 2
    /\ \A k \in 1..Len(out.pooled.data) : out.pooled.data[k] # R(0)
    /\ Entry2(out.pool_weights, 1, 0) # Entry2(out.pool_weights, 1, 1)

\* C8: in LearnedWeightHybridClassifier.forward the gate output is [batch, 2]
\* with rows summing to 1, and the score of every event is
\* w_general * general_result + w_invariant * invariant_result of that same
\* event, of shape [batch, 1].
C8_LearnedGateMixesPerEvent ==
    (kind = "Learned" /\ pc = "forwarded") =>
      /\ out.network_weights.shape = <<inp.B, 2>>
      /\ out.result.shape = <<inp.B, 1>>
      /\ \A b \in Events :
           /\ RAdd(Entry2(out.network_weights, b, 0),
                   Entry2(out.network_weights, b, 1)) = R(1)
           /\ out.result.data[b] =
                  RAdd(RMul(Entry2(out.network_weights, b, 0), inp.general_result.data[b]),
                       RMul(Entry2(out.network_weights, b, 1), inp.invariant_result.data[b]))

C8_Witness ==
    /\ kind = "Learned" /\ pc = "forwarded"
    /\ inp.B >= 2
    /\ Entry2(out.network_weights, 1, 0) # Entry2(out.network_weights, 2, 0)
    /\ out.result.data[1] # out.result.data[2]

\* C9: sum-pooling removes the size-2 source axis only: for every batch size B
\* and latent_space_dim L the pooled tensor is [B, L] and the head turns it
\* into a logit of shape [B, 1].
C9_SumPoolRemovesOnlySourceAxis ==
    (kind = "Pooled" /\ pc \in {"forwarded", "forward_raised"}) =>
      /\ out.pooled.shape = <<inp.B, args.latent_space_dim>>
      /\ exc = "none"
      /\ out.result_shape = <<inp.B, 1>>

\* output width of the last linear layer (or particle mapping) before position
\* k of seq; the input width of the stack when there is none
RECURSIVE WidthBefore(_, _, _)
WidthBefore(seq, k, in) ==
    IF k <= 1 THEN in
    ELSE IF seq[k - 1].op \in {"Linear", "ParticleMapping"} THEN seq[k - 1].out
    ELSE WidthBefore(seq, k - 1, in)

Chained(seq, in) ==
    \A k \in 1..Len(seq) :
      /\ seq[k].op = "Linear" => seq[k].in = WidthBefore(seq, k, in)
      /\ seq[k].op = "BatchNorm1d" =>
           k > 1 /\ seq[k - 1].op = "Linear" /\ seq[k].in = seq[k - 1].out

\* C10: in every stack under construction and every finished one, each linear
\* layer's input width is the output width of the linear layer before it (the
\* stack's input width for the first), each normalisation has the width the
\* linear layer before it produces, and the last linear layer of a finished
\* stack has the declared output width (2 for gates, 1 for the head).
C10_WidthsChain ==
    /\ kind = "Learned" => Chained(stack, 4)
    /\ kind = "Pooled" =>
         /\ Chained(weight_network, 1)
         /\ Chained(stack, args.latent_space_dim)
    /\ (kind = "Learned" /\ stack # <<>>) =>
         stack[2] = Linear(args.latent_space_dim, stack[2].out)
    /\ (Built /\ kind = "Learned") =>
         /\ self.stack = stack
         /\ Last(LinearsOf(stack)).out = 2
    /\ (Built /\ kind = "Pooled") =>
         /\ self.stack = stack /\ self.weight_network = weight_network
         /\ Last(LinearsOf(weight_network)).out = 2
         /\ Last(LinearsOf(stack)).out = 1

C10_Witness ==
    /\ kind = "Pooled" /\ pc = "constructed"
    /\ Len(args.weight_network_hidden_layer_dimensions) >= 2
    /\ args.weight_network_hidden_layer_dimensions[1]
         # args.weight_network_hidden_layer_dimensions[2]
    /\ Len(args.classifier_hidden_layer_dimensions) >= 2
    /\ args.classifier_hidden_layer_dimensions[1]
         # args.classifier_hidden_layer_dimensions[2]

=============================================================================
